---- MODULE Spec2Model ----
(***************************************************************************)
(* Traffic Simulation Visualizer (visualize.py): the playback controller   *)
(* of class Visualizer, the loading of the feed in main() and the render   *)
(* loop main_loop(), as a state machine.                                   *)
(*                                                                         *)
(* Indices are the program's: _time_idx is 0-based, so the snapshot at     *)
(* index i is timeline[i + 1] of the 1-based TLA+ sequence.                *)
(***************************************************************************)
EXTENDS Integers, Sequences, FiniteSets, TLC

\* ---------------------------------------------------------------- bounds
MaxFeed == 3      \* lines on standard input
MaxRate == 2      \* largest --speed argument tried
MaxEvents == 2    \* events delivered by one pygame.event.get()
MaxHeld == 2      \* keys held down at the same time
MaxHold == 2      \* consecutive ticks of one scrub that are counted

\* ------------------------------------------------------ program constants
INITIAL_WINDOW_WIDTH == 800
INITIAL_WINDOW_HEIGHT == 200
_DEFAULT_PLAYBACK_RATE == 1

\* pygame key codes the program reads
K_SPACE == "K_SPACE"
K_r == "K_r"
K_LEFT == "K_LEFT"
K_RIGHT == "K_RIGHT"
K_LSHIFT == "K_LSHIFT"
K_RSHIFT == "K_RSHIFT"
Keys == {K_SPACE, K_r, K_LEFT, K_RIGHT, K_LSHIFT, K_RSHIFT}

\* sizes a VIDEORESIZE event may carry
ResizeSizes == {<<INITIAL_WINDOW_WIDTH, INITIAL_WINDOW_HEIGHT>>, <<832, 216>>}

Max(a, b) == IF a >= b THEN a ELSE b

\* ------------------------------------------------------------ feed lines
\* A line of the feed is either text that ast.literal_eval rejects, or the
\* text of a dict literal, represented by the dict it denotes.
GoodRoad == [name |-> "A", length |-> 100, lights |-> <<>>, cars |-> <<[x |-> 10]>>]
WellFormedLine(t) == [literal |-> TRUE, value |-> [time |-> t, roads |-> <<GoodRoad>>]]
MalformedLine == [literal |-> FALSE, value |-> [garbage |-> TRUE]]
PartialLine(t) == [literal |-> TRUE, value |-> [time |-> t]]
EmptyRoadsLine(t) == [literal |-> TRUE, value |-> [time |-> t, roads |-> <<>>]]
LinesAt(t) == {WellFormedLine(t), MalformedLine, PartialLine(t), EmptyRoadsLine(t)}
AllLines == UNION {LinesAt(t) : t \in 1..MaxFeed}
Feeds == UNION {{f \in [1..n -> AllLines] : \A i \in 1..n : f[i] \in LinesAt(i)} : n \in 0..MaxFeed}

\* the --speed arguments tried: int(s) for s in "0", "1", ...
SpeedArgs == 0..MaxRate

VARIABLES
    pc,              \* position of the program
    feed,            \* sys.stdin.readlines(): every line of the feed
    stdin,           \* the lines of feed the for loop of main() has not reached
    timeline,        \* self._timeline
    playback_rate,   \* self._playback_rate
    time_idx,        \* self._time_idx
    paused,          \* self._paused
    window_width,    \* self._window_width
    window_height,   \* self._window_height
    held,            \* keys down, as pygame.key.get_pressed() reports them
    nevents,         \* events handled so far by this tick's for loop
    situation,       \* local variable situation of main_loop
    display,         \* the pygame display: closed, blank, or the frame presented
    hold_ticks,      \* history: consecutive paused ticks without events
    hold_idx,        \* history: _time_idx before the first of those ticks
    trace,           \* history: the last controller operations (SpecCtl)
    speed_arg,       \* the --speed argument of the command line, as int(s)
    input_open,      \* FALSE once the user has stopped giving input (SpecLive)
    drawn            \* the draw commands of the last frame, in order (SpecRender)

vars == <<pc, feed, stdin, timeline, playback_rate, time_idx, paused, window_width,
          window_height, held, nevents, situation, display, hold_ticks,
          hold_idx, trace, speed_arg, input_open, drawn>>

NoSituation == [unset |-> TRUE]
NoDisplay == [state |-> "none", time |-> 0, pause_icon |-> FALSE]
BlankDisplay == [state |-> "open", time |-> 0, pause_icon |-> FALSE]
ClosedDisplay == [state |-> "closed", time |-> 0, pause_icon |-> FALSE]
Frame(t, p) == [state |-> "frame", time |-> t, pause_icon |-> p]

\* ------------------------------------------------------------ controller
\* The controller's state as a record, so the methods are operators on it.
Ctl(i, p) == [time_idx |-> i, paused |-> p]

\* mutant: the flag is set instead of flipped
_toggle_pause_sets(c) == [c EXCEPT !.paused = TRUE]

_toggle_pause(c) == [c EXCEPT !.paused = ~c.paused]

\* mutant: the step count is ignored, one frame back
_frames_back_one(c, n) == [c EXCEPT !.time_idx = Max(0, c.time_idx - 1)]

_frames_back(c, n) == [c EXCEPT !.time_idx = Max(0, c.time_idx - n)]

\* mutant: the index is not clamped at the end
_frames_forward_unclamped(c, n, len) ==
    IF c.time_idx + n >= len
    THEN [time_idx |-> c.time_idx + n, paused |-> TRUE]
    ELSE [c EXCEPT !.time_idx = c.time_idx + n]

\* mutant: landing on the last index pauses as well
_frames_forward_pause_at_last(c, n, len) ==
    IF c.time_idx + n >= len - 1
    THEN [time_idx |-> len - 1, paused |-> TRUE]
    ELSE [c EXCEPT !.time_idx = c.time_idx + n]

\* mutant: the end test is > instead of >=
_frames_forward_off_by_one(c, n, len) ==
    IF c.time_idx + n > len
    THEN [time_idx |-> len - 1, paused |-> TRUE]
    ELSE [c EXCEPT !.time_idx = c.time_idx + n]

\* mutant: playback wraps around at the end and goes on
_frames_forward_wraps(c, n, len) ==
    IF c.time_idx + n >= len
    THEN [time_idx |-> 0, paused |-> FALSE]
    ELSE [c EXCEPT !.time_idx = c.time_idx + n]

\* mutant: the end clamps the index and leaves playback Running
_frames_forward_no_pause(c, n, len) ==
    IF c.time_idx + n >= len
    THEN [c EXCEPT !.time_idx = len - 1]
    ELSE [c EXCEPT !.time_idx = c.time_idx + n]

_frames_forward(c, n, len) ==
    IF c.time_idx + n >= len
    THEN [time_idx |-> len - 1, paused |-> TRUE]
    ELSE [c EXCEPT !.time_idx = c.time_idx + n]

\* mutant: restarting resumes playback
_handle_key_down_restart_resumes(c, key) ==
    LET c1 == IF key = K_SPACE THEN _toggle_pause(c) ELSE c
    IN  IF key = K_r THEN [time_idx |-> 0, paused |-> FALSE] ELSE c1

_handle_key_down(c, key) ==
    LET c1 == IF key = K_SPACE THEN _toggle_pause(c) ELSE c
    IN  IF key = K_r THEN [c1 EXCEPT !.time_idx = 0] ELSE c1

\* mutant: a held space key toggles again at every sampling
_handle_keys_pressed_space_repeats(c, keys_pressed, rate, len) ==
    LET shift_pressed == K_LSHIFT \in keys_pressed \/ K_RSHIFT \in keys_pressed
        n == IF shift_pressed THEN rate ELSE 1
        c0 == IF K_SPACE \in keys_pressed THEN _toggle_pause(c) ELSE c
        c1 == IF K_LEFT \in keys_pressed /\ c0.paused THEN _frames_back(c0, n) ELSE c0
    IN  IF K_RIGHT \in keys_pressed /\ c1.paused THEN _frames_forward(c1, n, len) ELSE c1

\* mutant: the seeks are not guarded by the paused flag
_handle_keys_pressed_unguarded(c, keys_pressed, rate, len) ==
    LET shift_pressed == K_LSHIFT \in keys_pressed \/ K_RSHIFT \in keys_pressed
        n == IF shift_pressed THEN rate ELSE 1
        c1 == IF K_LEFT \in keys_pressed THEN _frames_back(c, n) ELSE c
    IN  IF K_RIGHT \in keys_pressed THEN _frames_forward(c1, n, len) ELSE c1

_handle_keys_pressed(c, keys_pressed, rate, len) ==
    LET shift_pressed == K_LSHIFT \in keys_pressed \/ K_RSHIFT \in keys_pressed
        n == IF shift_pressed THEN rate ELSE 1
        c1 == IF K_LEFT \in keys_pressed /\ c.paused THEN _frames_back(c, n) ELSE c
    IN  IF K_RIGHT \in keys_pressed /\ c1.paused THEN _frames_forward(c1, n, len) ELSE c1

\* ---------------------------------------------------------------- loading
\* mutant: the parse error is swallowed
literal_eval_never_raises(data) == FALSE

\* ast.literal_eval raises on text that is no Python literal
literal_eval_raises(data) == ~data.literal
literal_eval(data) == data.value

\* _render_situation raises KeyError on a missing field and ValueError on
\* max() of an empty road list
RoadFields == {"name", "length", "lights", "cars"}
_render_situation_raises(s) ==
    \/ "time" \notin DOMAIN s
    \/ "roads" \notin DOMAIN s
    \/ s.roads = <<>>
    \/ \E i \in 1..Len(s.roads) : ~(RoadFields \subseteq DOMAIN s.roads[i])

\* Python list indexing: IndexError outside -len..len-1, negative indices
\* count from the end
list_index_raises(list, i) == i >= Len(list) \/ i < -Len(list)
list_index(list, i) == IF i >= 0 THEN list[i + 1] ELSE list[Len(list) + i + 1]

Init ==
    /\ pc = "main"
    /\ feed \in Feeds
    /\ stdin = feed
    /\ timeline = <<>>
    /\ playback_rate = _DEFAULT_PLAYBACK_RATE
    /\ time_idx = 0
    /\ paused = FALSE
    /\ window_width = INITIAL_WINDOW_WIDTH
    /\ window_height = INITIAL_WINDOW_HEIGHT
    /\ held = {}
    /\ nevents = 0
    /\ situation = NoSituation
    /\ display = NoDisplay
    /\ hold_ticks = 0
    /\ hold_idx = 0
    /\ trace = <<>>
    /\ speed_arg \in SpeedArgs
    /\ input_open = TRUE
    /\ drawn = <<>>

\* mutant: speed() accepts every integer
speed_unchecked(s) == s

\* speed(), lines 40-44, on the integer the argument denotes
ArgumentTypeError == -1
speed(s) == IF s < 1 THEN ArgumentTypeError ELSE s

\* main(), lines 40-59: the speed argument is parsed and set
ParseArgs ==
    /\ pc = "main"
    /\ IF speed(speed_arg) = ArgumentTypeError
       THEN /\ pc' = "usage_error"
            /\ UNCHANGED playback_rate
       ELSE /\ playback_rate' = speed(speed_arg)
            /\ pc' = "load"
    /\ UNCHANGED <<feed, stdin, timeline, time_idx, paused, window_width, window_height,
                   held, nevents, situation, display, hold_ticks, hold_idx, trace, speed_arg, input_open, drawn>>

\* main(), lines 74-75: one line of the feed is pushed
push_simulation_frame_data ==
    /\ pc = "load"
    /\ stdin # <<>>
    /\ IF literal_eval_raises(Head(stdin))
       THEN /\ pc' = "load_error"
            /\ UNCHANGED timeline
       ELSE /\ timeline' = Append(timeline, literal_eval(Head(stdin)))
            /\ UNCHANGED pc
    /\ stdin' = Tail(stdin)
    /\ UNCHANGED <<feed, playback_rate, time_idx, paused, window_width, window_height,
                   held, nevents, situation, display, hold_ticks, hold_idx, trace, speed_arg, input_open, drawn>>

\* main_loop(), lines 179-185: the index is reset and the window is opened
main_loop_start ==
    /\ pc = "load"
    /\ stdin = <<>>
    /\ time_idx' = 0
    /\ display' = BlankDisplay
    /\ pc' = "events"
    /\ UNCHANGED <<feed, stdin, timeline, playback_rate, paused, window_width, window_height,
                   held, nevents, situation, hold_ticks, hold_idx, trace, speed_arg, input_open, drawn>>

\* One iteration of the for loop over pygame.event.get(), lines 188-195.
EventQuit ==
    /\ pc = "events"
    /\ input_open
    /\ nevents < MaxEvents
    /\ pc' = "quit"
    /\ display' = ClosedDisplay
    /\ nevents' = nevents + 1
    /\ hold_ticks' = 0
    /\ hold_idx' = 0
    /\ UNCHANGED <<feed, stdin, timeline, playback_rate, time_idx, paused, window_width,
                   window_height, held, situation, trace, speed_arg, input_open, drawn>>

EventVideoResize ==
    /\ pc = "events"
    /\ input_open
    /\ nevents < MaxEvents
    /\ \E size \in ResizeSizes :
          /\ window_width' = size[1]
          /\ window_height' = size[2]
    /\ nevents' = nevents + 1
    /\ hold_ticks' = 0
    /\ hold_idx' = 0
    /\ UNCHANGED <<pc, feed, stdin, timeline, playback_rate, time_idx, paused, held,
                   situation, display, trace, speed_arg, input_open, drawn>>

\* a KEYDOWN event: the key goes down and _handle_key_down runs
EventKeyDown ==
    /\ pc = "events"
    /\ input_open
    /\ nevents < MaxEvents
    /\ Cardinality(held) < MaxHeld
    /\ \E key \in Keys \ held :
          LET c == _handle_key_down(Ctl(time_idx, paused), key)
          IN  /\ held' = held \cup {key}
              /\ time_idx' = c.time_idx
              /\ paused' = c.paused
    /\ nevents' = nevents + 1
    /\ hold_ticks' = 0
    /\ hold_idx' = 0
    /\ UNCHANGED <<pc, feed, stdin, timeline, playback_rate, window_width, window_height,
                   situation, display, trace, speed_arg, input_open, drawn>>

\* a KEYUP event: the key goes up; the loop has no branch for the event
EventKeyUp ==
    /\ pc = "events"
    /\ input_open
    /\ nevents < MaxEvents
    /\ \E key \in held : held' = held \ {key}
    /\ nevents' = nevents + 1
    /\ hold_ticks' = 0
    /\ hold_idx' = 0
    /\ UNCHANGED <<pc, feed, stdin, timeline, playback_rate, time_idx, paused, window_width,
                   window_height, situation, display, trace, speed_arg, input_open, drawn>>

\* lines 197-199: the for loop is over, the held keys are sampled and handled
HandleKeysPressed ==
    /\ pc = "events"
    /\ LET c == _handle_keys_pressed(Ctl(time_idx, paused), held, playback_rate,
                                     Len(timeline))
       IN  /\ time_idx' = c.time_idx
           /\ paused' = c.paused
    /\ IF paused
       THEN IF hold_ticks = 0 \/ hold_ticks >= MaxHold
            THEN hold_ticks' = 1 /\ hold_idx' = time_idx
            ELSE hold_ticks' = hold_ticks + 1 /\ UNCHANGED hold_idx
       ELSE hold_ticks' = 0 /\ hold_idx' = 0
    /\ pc' = "fetch"
    /\ UNCHANGED <<feed, stdin, timeline, playback_rate, window_width, window_height, held,
                   nevents, situation, display, trace, speed_arg, input_open, drawn>>

\* line 201: situation = self._timeline[self._time_idx]
Fetch ==
    /\ pc = "fetch"
    /\ IF list_index_raises(timeline, time_idx)
       THEN /\ pc' = "crashed"
            /\ UNCHANGED situation
       ELSE /\ situation' = list_index(timeline, time_idx)
            /\ pc' = "advance"
    /\ UNCHANGED <<feed, stdin, timeline, playback_rate, time_idx, paused, window_width,
                   window_height, held, nevents, display, hold_ticks, hold_idx, trace, speed_arg, input_open, drawn>>

\* mutant: the snapshot is fetched after the automatic advance
Advance_then_fetch ==
    /\ pc = "advance"
    /\ LET c == IF ~paused
                THEN _frames_forward(Ctl(time_idx, paused), playback_rate, Len(timeline))
                ELSE Ctl(time_idx, paused)
       IN  /\ time_idx' = c.time_idx
           /\ paused' = c.paused
           /\ situation' = list_index(timeline, c.time_idx)
    /\ pc' = "render"
    /\ UNCHANGED <<feed, stdin, timeline, playback_rate, window_width, window_height, held,
                   nevents, display, hold_ticks, hold_idx, trace, speed_arg, input_open, drawn>>

\* lines 202-203: the automatic advance
Advance ==
    /\ pc = "advance"
    /\ LET c == IF ~paused
                THEN _frames_forward(Ctl(time_idx, paused), playback_rate, Len(timeline))
                ELSE Ctl(time_idx, paused)
       IN  /\ time_idx' = c.time_idx
           /\ paused' = c.paused
    /\ pc' = "render"
    /\ UNCHANGED <<feed, stdin, timeline, playback_rate, window_width, window_height, held,
                   nevents, situation, display, hold_ticks, hold_idx, trace, speed_arg, input_open, drawn>>

\* lines 205-209: the frame is drawn and presented, and the tick ends
Render ==
    /\ pc = "render"
    /\ IF _render_situation_raises(situation)
       THEN /\ pc' = "crashed"
            /\ UNCHANGED <<display, nevents>>
       ELSE /\ display' = Frame(situation.time, paused)
            /\ pc' = "events"
            /\ nevents' = 0
    /\ UNCHANGED <<feed, stdin, timeline, playback_rate, time_idx, paused, window_width,
                   window_height, held, situation, hold_ticks, hold_idx, trace, speed_arg, input_open, drawn>>

Next ==
    \/ ParseArgs
    \/ push_simulation_frame_data
    \/ main_loop_start
    \/ EventQuit
    \/ EventVideoResize
    \/ EventKeyDown
    \/ EventKeyUp
    \/ HandleKeysPressed
    \/ Fetch
    \/ Advance
    \/ Render

Spec == Init /\ [][Next]_vars

\* ------------------------------------------------- controller, in isolation
\* The controller's methods called directly, in any order, from any state of
\* the controller over a loaded timeline; trace keeps the last two calls with
\* the state each found.
Timelines == {[i \in 1..n |-> literal_eval(WellFormedLine(i))] : n \in 1..MaxFeed}
Steps == 0..MaxRate

Call(op, n) == [op |-> op, n |-> n, before |-> Ctl(time_idx, paused)]
Record(call) == IF trace = <<>> THEN <<call>> ELSE <<trace[Len(trace)], call>>

CtlFrame == UNCHANGED <<pc, feed, stdin, timeline, playback_rate, window_width,
                        window_height, held, nevents, situation, display,
                        hold_ticks, hold_idx, speed_arg, input_open, drawn>>

InitCtl ==
    /\ pc = "ctl"
    /\ feed = <<>>
    /\ stdin = <<>>
    /\ timeline \in Timelines
    /\ playback_rate \in 1..MaxRate
    /\ time_idx \in 0..(Len(timeline) - 1)
    /\ paused \in BOOLEAN
    /\ window_width = INITIAL_WINDOW_WIDTH
    /\ window_height = INITIAL_WINDOW_HEIGHT
    /\ held = {}
    /\ nevents = 0
    /\ situation = NoSituation
    /\ display = NoDisplay
    /\ hold_ticks = 0
    /\ hold_idx = 0
    /\ trace = <<>>
    /\ speed_arg = playback_rate
    /\ input_open = TRUE
    /\ drawn = <<>>

CallTogglePause ==
    /\ pc = "ctl"
    /\ LET c == _toggle_pause(Ctl(time_idx, paused))
       IN  time_idx' = c.time_idx /\ paused' = c.paused
    /\ trace' = Record(Call("toggle_pause", 0))
    /\ CtlFrame

CallRestart ==
    /\ pc = "ctl"
    /\ LET c == _handle_key_down(Ctl(time_idx, paused), K_r)
       IN  time_idx' = c.time_idx /\ paused' = c.paused
    /\ trace' = Record(Call("restart", 0))
    /\ CtlFrame

CallFramesForward ==
    /\ pc = "ctl"
    /\ \E n \in Steps :
          LET c == _frames_forward(Ctl(time_idx, paused), n, Len(timeline))
          IN  /\ time_idx' = c.time_idx
              /\ paused' = c.paused
              /\ trace' = Record(Call("frames_forward", n))
    /\ CtlFrame

CallFramesBack ==
    /\ pc = "ctl"
    /\ \E n \in Steps :
          LET c == _frames_back(Ctl(time_idx, paused), n)
          IN  /\ time_idx' = c.time_idx
              /\ paused' = c.paused
              /\ trace' = Record(Call("frames_back", n))
    /\ CtlFrame

NextCtl ==
    \/ CallTogglePause
    \/ CallRestart
    \/ CallFramesForward
    \/ CallFramesBack

SpecCtl == InitCtl /\ [][NextCtl]_vars

\* ------------------------------------------------------------------ claims
InLoop == pc \in {"events", "fetch", "advance", "render"}
Length == Len(timeline)

\* C1: with a non-empty timeline the index is a valid position of it, 0 <=
\* index < length, in every state the program reaches, between the steps of a
\* tick as well as between ticks, whatever the rate and the input.
C1_IndexInRange == Length >= 1 => (0 <= time_idx /\ time_idx < Length)

\* C1's case: input has acted (a key is down, the window was resized) and the
\* advance was clamped at the end of a timeline of several snapshots.
C1_Witness ==
    /\ Length >= 2
    /\ time_idx = Length - 1
    /\ paused
    /\ pc = "render"
    /\ held # {}
    /\ window_width # INITIAL_WINDOW_WIDTH

\* C2 as stated: whenever the automatic advance leaves the index at length-1
\* the paused flag is true immediately afterwards.
C2_EndAlwaysPauses == (pc = "render" /\ time_idx = Length - 1) => paused

\* C2 as amended: step_forward(n) pauses exactly when index + n >= length,
\* and then leaves the index at length-1; landing on length-1 with index + n
\* = length-1 leaves paused as it was.  With 2 snapshots and rate 1, the
\* first tick without input moves the index from 0 to 1 and does not pause.
C2_OvershootPauses ==
    [][/\ (pc = "advance" /\ ~paused) =>
            IF time_idx + playback_rate >= Length
            THEN time_idx' = Length - 1 /\ paused'
            ELSE time_idx' = time_idx + playback_rate /\ ~paused'
       /\ (pc = "events" /\ pc' = "fetch" /\ paused /\ held = {K_RIGHT}) =>
            (/\ paused'
             /\ time_idx' = IF time_idx + 1 >= Length THEN Length - 1 ELSE time_idx + 1)
       /\ (pc = "advance" /\ display = BlankDisplay /\ nevents = 0 /\ held = {}
              /\ Length = 2 /\ playback_rate = 1) =>
            (time_idx = 0 /\ ~paused /\ time_idx' = 1 /\ ~paused')
      ]_vars

\* C2's case: the first tick of a 2-snapshot timeline at rate 1, no input,
\* after the automatic advance.
C2_Witness ==
    /\ pc = "render"
    /\ display = BlankDisplay
    /\ nevents = 0
    /\ held = {}
    /\ Length = 2
    /\ playback_rate = 1
    /\ time_idx = 1
    /\ ~paused

C4_SeekIgnoredWhileRunning ==
    [][(pc = "events" /\ pc' = "fetch" /\ ~paused) =>
          /\ time_idx' = time_idx
          /\ paused' = paused
          /\ Ctl(time_idx', paused') =
                _handle_keys_pressed(Ctl(time_idx, paused), {}, playback_rate, Length)
      ]_vars

\* C4's case: Right and Shift were down when a Running controller sampled
\* the keys, on a timeline with room to move.
C4_Witness ==
    /\ pc = "fetch"
    /\ ~paused
    /\ held = {K_RIGHT, K_LSHIFT}
    /\ Length >= 2
    /\ time_idx = 0

\* C5: the key-down of r sets the index to 0 and leaves paused, the playback
\* rate and the timeline as they were, from any index and mode.
C5_RestartResetsIndexOnly ==
    [][(pc = "events" /\ K_r \notin held /\ K_r \in held') =>
          /\ time_idx' = 0
          /\ paused' = paused
          /\ playback_rate' = playback_rate
          /\ timeline' = timeline
      ]_vars

\* C5's case: the last frame was presented with the pause glyph (the end was
\* reached), and r has gone down since: Paused at index 0.
C5_Witness ==
    /\ pc = "events"
    /\ K_r \in held
    /\ Length >= 2
    /\ display = Frame(Length, TRUE)
    /\ paused
    /\ time_idx = 0

\* C6: one toggle_pause flips paused and leaves the index; two in succession
\* restore the paused flag and leave the index, from any state.
C6_TogglePauseInvolution ==
    /\ (trace # <<>> /\ trace[Len(trace)].op = "toggle_pause") =>
          /\ paused = ~trace[Len(trace)].before.paused
          /\ time_idx = trace[Len(trace)].before.time_idx
    /\ (Len(trace) = 2 /\ trace[1].op = "toggle_pause" /\ trace[2].op = "toggle_pause") =>
          /\ paused = trace[1].before.paused
          /\ time_idx = trace[1].before.time_idx

\* C6's case: two toggles in succession, the first from Running past index 0.
C6_Witness ==
    /\ Len(trace) = 2
    /\ trace[1].op = "toggle_pause"
    /\ trace[2].op = "toggle_pause"
    /\ ~trace[1].before.paused
    /\ time_idx > 0

\* C7: step_forward(n) from index i with i + n < length, followed at once by
\* step_back(n), returns the index to i and leaves paused as it was.
C7_ForwardBackRoundTrip ==
    (/\ Len(trace) = 2
     /\ trace[1].op = "frames_forward"
     /\ trace[2].op = "frames_back"
     /\ trace[1].n = trace[2].n
     /\ trace[1].before.time_idx + trace[1].n < Length) =>
        /\ time_idx = trace[1].before.time_idx
        /\ paused = trace[1].before.paused

\* C7's case: an unclamped forward step of 2 from index 0 while Running, and
\* the step back of 2.
C7_Witness ==
    /\ Len(trace) = 2
    /\ trace[1].op = "frames_forward"
    /\ trace[2].op = "frames_back"
    /\ trace[1].n = 2
    /\ trace[2].n = 2
    /\ trace[1].before = Ctl(0, FALSE)
    /\ Length >= 3
    /\ time_idx = 0

\* the clamped round trip that does not restore the index (C7, second half)
C7_ClampedNotRestored ==
    /\ Len(trace) = 2
    /\ trace[1].op = "frames_forward"
    /\ trace[2].op = "frames_back"
    /\ trace[1].n = trace[2].n
    /\ trace[1].before.time_idx + trace[1].n >= Length
    /\ time_idx # trace[1].before.time_idx

\* the magnitude of a seek: playback_rate with Shift, otherwise 1
Magnitude == IF held \cap {K_LSHIFT, K_RSHIFT} # {} THEN playback_rate ELSE 1
Min(a, b) == IF a <= b THEN a ELSE b

\* after k consecutive Paused ticks without events, k seeks were applied
HoldApplied ==
    hold_ticks >= 1 =>
        /\ paused
        /\ (K_LEFT \in held /\ K_RIGHT \notin held) =>
              time_idx = Max(0, hold_idx - hold_ticks * Magnitude)
        /\ (K_RIGHT \in held /\ K_LEFT \notin held) =>
              time_idx = Min(Length - 1, hold_idx + hold_ticks * Magnitude)
        /\ (K_LEFT \notin held /\ K_RIGHT \notin held) => time_idx = hold_idx

\* the steps of the keys: space and r act on the step they go down and not
\* while they stay down; Left and Right act at every sampling while Paused
KeySteps ==
    /\ (K_SPACE \notin held /\ K_SPACE \in held') =>
          (paused' = ~paused /\ time_idx' = time_idx)
    /\ (K_SPACE \in held /\ K_SPACE \in held') =>
          \/ paused' = paused
          \/ (pc = "advance" /\ ~paused /\ paused'
                /\ time_idx + playback_rate >= Length)
    /\ (K_r \notin held /\ K_r \in held') => time_idx' = 0
    /\ (K_r \in held /\ K_r \in held') =>
          \/ time_idx' = time_idx
          \/ (pc = "events" /\ pc' = "fetch" /\ paused
                /\ held \cap {K_LEFT, K_RIGHT} # {})
          \/ (pc = "advance" /\ ~paused)
    /\ (pc = "events" /\ pc' = "fetch" /\ paused) =>
          /\ (K_LEFT \in held /\ K_RIGHT \notin held) =>
                time_idx' = Max(0, time_idx - Magnitude)
          /\ (K_RIGHT \in held /\ K_LEFT \notin held) =>
                time_idx' = Min(Length - 1, time_idx + Magnitude)
          /\ (K_LEFT \notin held /\ K_RIGHT \notin held) => time_idx' = time_idx

\* C8: pause and restart are edge-triggered, stepping is level-triggered: a
\* space (or r) key toggles (or resets) on the step it goes down and never
\* again while it stays down, and Left or Right held over k Paused ticks
\* steps the index once in each of them, by 1, or by the rate with Shift.
C8_EdgeAndLevelTriggered == []HoldApplied /\ [][KeySteps]_vars

\* C8's case: space and Left both down over two consecutive Paused ticks, the
\* index two frames back and the flag still Paused.
C8_Witness ==
    /\ hold_ticks = 2
    /\ held = {K_SPACE, K_LEFT}
    /\ paused
    /\ hold_idx = 2
    /\ time_idx = 0

\* C9: a feed whose lines all deserialize is loaded whole and in order, and
\* the timeline stays that way through the loop; a feed with a line that
\* does not deserialize never gets past loading and no frame is rendered.
C9_LoadAllOrAbort ==
    /\ pc = "load" =>
          timeline = [i \in 1..(Len(feed) - Len(stdin)) |-> feed[i].value]
    /\ (InLoop \/ pc \in {"quit", "crashed"}) =>
          /\ \A i \in 1..Len(feed) : feed[i].literal
          /\ Length = Len(feed)
          /\ timeline = [i \in 1..Len(feed) |-> feed[i].value]
    /\ (\E i \in 1..Len(feed) : ~feed[i].literal) =>
          /\ pc \in {"main", "usage_error", "load", "load_error"}
          /\ display = NoDisplay
    /\ pc = "load_error" => ~feed[Len(feed) - Len(stdin)].literal

\* C9's case: three well-formed lines loaded and the third one on display.
C9_Witness ==
    /\ Len(feed) = 3
    /\ Length = 3
    /\ \A i \in 1..3 : timeline[i] = feed[i].value /\ timeline[i].time = i
    /\ display.state = "frame"
    /\ display.time = 3

\* a snapshot with every field the renderer reads
IsComplete(s) ==
    /\ {"time", "roads"} \subseteq DOMAIN s
    /\ \A i \in 1..Len(s.roads) : RoadFields \subseteq DOMAIN s.roads[i]

\* C10: a record that deserializes but lacks a required field is rejected
\* when it is appended: the timeline never holds one and no tick fetches one.
C10_NoPartialSnapshotStored ==
    /\ \A i \in 1..Length : IsComplete(timeline[i])
    /\ pc \in {"advance", "render"} => IsComplete(situation)

\* C11: with an empty timeline the session fails before the render loop: no
\* window is created, no event is polled and no tick begins.
C11_EmptyTimelineRefusedBeforeLoop ==
    Len(feed) = 0 =>
        /\ display = NoDisplay
        /\ ~InLoop
        /\ nevents = 0
        /\ held = {}

\* a snapshot whose road list is empty
IsDegenerate(s) == "roads" \in DOMAIN s /\ s.roads = <<>>

\* C12: playback never gets past a snapshot with an empty road list: no
\* frame of a later snapshot is presented when an earlier snapshot, itself
\* after the start, is degenerate.
C12_DegenerateNeverSkipped ==
    \A i \in 2..Length :
        IsDegenerate(timeline[i]) => ~(display.state = "frame" /\ display.time > i)

\* C13: a --speed below 1 is rejected before anything is loaded or shown,
\* and from loading on the playback rate is the argument, at least 1, in
\* every state: no tick, key event or resize changes it.
C13_RateFixedAndPositive ==
    /\ speed_arg < 1 =>
          /\ pc \in {"main", "usage_error"}
          /\ display = NoDisplay
          /\ timeline = <<>>
    /\ pc \notin {"main", "usage_error"} =>
          /\ playback_rate = speed_arg
          /\ playback_rate >= 1

\* C13's case: rate 2, in the loop after a frame, a key down and the window
\* resized.
C13_Witness ==
    /\ InLoop
    /\ speed_arg = 2
    /\ playback_rate = 2
    /\ display.state = "frame"
    /\ held # {}
    /\ window_width # INITIAL_WINDOW_WIDTH

\* C14: with a non-empty timeline, once the loop is entered it is left only
\* by a quit event.
C14_OnlyQuitEndsLoop ==
    (Length >= 1 /\ display # NoDisplay) => (InLoop \/ pc = "quit")

\* C14 on timelines whose snapshots are all complete and have a road: there
\* the loop is left by the quit event alone, and nothing follows it.
AllRenderable == \A i \in 1..Length : ~_render_situation_raises(timeline[i])
C14_OnlyQuitEndsLoopIfRenderable ==
    (Length >= 1 /\ AllRenderable /\ display # NoDisplay) =>
        /\ InLoop \/ pc = "quit"
        /\ pc = "quit" => display = ClosedDisplay

\* C19: a tick that fetches the snapshot at the last index ends Paused with
\* the index still length-1, whether or not it was Running at the fetch.
C19_NoRunningPastEnd ==
    [][(pc = "advance" /\ time_idx = Length - 1) =>
          /\ pc' = "render"
          /\ paused'
          /\ time_idx' = Length - 1
      ]_vars

\* C19's case: the previous frame was the last snapshot with the pause glyph,
\* this tick sampled the keys while Running (space went down in it), and the
\* advance has paused it again at the last index.
C19_Witness ==
    /\ pc = "render"
    /\ Length >= 2
    /\ display = Frame(Length, TRUE)
    /\ held = {K_SPACE}
    /\ nevents = 1
    /\ hold_ticks = 0
    /\ paused
    /\ time_idx = Length - 1

SpaceDown == pc = "events" /\ K_SPACE \notin held /\ K_SPACE \in held'
RestartDown == pc = "events" /\ K_r \notin held /\ K_r \in held'
NoSeekKey == held \cap {K_LEFT, K_RIGHT} = {}

\* C20 as stated: paused goes from true to false only on a space key-down,
\* and while Paused with no seek key held the index does not change.
C20_NeverResumesNorMoves ==
    [][/\ (paused /\ ~paused') => SpaceDown
       /\ (paused /\ NoSeekKey) => time_idx' = time_idx
      ]_vars

\* C20 as amended: paused goes from true to false only on a space key-down,
\* and while Paused with no seek key held the index changes only on an r
\* key-down, which sets it to 0.
C20_NeverResumesMovesOnlyOnRestart ==
    [][/\ (paused /\ ~paused') => SpaceDown
       /\ (paused /\ NoSeekKey) =>
             \/ time_idx' = time_idx
             \/ (RestartDown /\ time_idx' = 0)
      ]_vars

\* C20's case: paused by the user in the middle of the timeline, two ticks
\* gone by without a seek key, the index where it was.
C20_Witness ==
    /\ pc = "render"
    /\ paused
    /\ NoSeekKey
    /\ hold_ticks = 2
    /\ 0 < time_idx
    /\ time_idx < Length - 1
    /\ time_idx = hold_idx

\* ------------------------------------------------------------- rendering
\* The frame as the sequence of draw commands _render_situation issues, in
\* the order it issues them.  Pixel arithmetic is the code's: products of an
\* integer and the float horizontal_scale = canvas_width / max_road_length,
\* cut to an integer by int().

MaxRoads == 3     \* roads of a rendered snapshot

_DEFAULT_CANVAS_MARGIN == 16
_DEFAULT_ROAD_HEIGHT == 20
_DEFAULT_CAR_HEIGHT == 10
_DEFAULT_CAR_WIDTH == 4
_DEFAULT_LIGHT_OFFSET == 4
_DEFAULT_LIGHT_RADIUS == 5
_DEFAULT_LIGHT_STOP_LINE_THICKNESS == 1
_DEFAULT_ROAD_NAME_OFFSET == 3
_DEFAULT_PAUSE_ICON_WIDTH == 15
_DEFAULT_PAUSE_ICON_HEIGHT == 20

_get_canvas_origin_left == _DEFAULT_CANVAS_MARGIN
_get_canvas_origin_top == _DEFAULT_CANVAS_MARGIN
_get_canvas_width(w) == w - 2 * _DEFAULT_CANVAS_MARGIN
_get_canvas_height(h) == h - 2 * _DEFAULT_CANVAS_MARGIN

\* Inputs of the render model: road lengths, car positions, lights.
RenderLengths == {25, 47, 50, 100}
CarLists == {<<>>, <<[x |-> 10]>>, <<[x |-> 50]>>}
LightLists ==
    { <<>>,
      <<[x |-> 30, green |-> TRUE, xs |-> 20, xs0 |-> 10]>>,
      <<[x |-> 30, green |-> FALSE, xs |-> 20, xs0 |-> 10]>>,
      <<[x |-> 30, green |-> FALSE]>> }
RoadLengthLists == UNION {[1..k -> RenderLengths] : k \in 1..MaxRoads}
RenderSituations ==
    { [time |-> 1,
       roads |-> [i \in DOMAIN L |->
                    [name |-> "A", length |-> L[i], lights |-> l, cars |-> c]]] :
      L \in RoadLengthLists, l \in LightLists, c \in CarLists }

\* max(int(road['length']) for road in roads)
max_road_length(roads) ==
    CHOOSE m \in {roads[i].length : i \in 1..Len(roads)} :
        \A i \in 1..Len(roads) : roads[i].length <= m

\* The triples <<v, W, M>> of the inputs above for which the double product
\* v * (W / M) falls just below the whole number v*W/M, so that int() gives
\* one less than the exact quotient: 47 * (768 / 47) = 767.9999999999999.
FloatShortfall == {<<47, 768, 47>>}

\* int(v * horizontal_scale), where horizontal_scale = W / M as a double.
int_scaled_rounds(v, W, M) == (2 * v * W + M) \div (2 * M)

int_scaled(v, W, M) ==
    IF <<v, W, M>> \in FloatShortfall
    THEN (v * W) \div M - 1
    ELSE (v * W) \div M

\* int((i+1) * canvas_height / (len(roads)+1)), i counted from 0
road_y_offset_no_bottom_margin(i, H, k) == ((i + 1) * H) \div k

road_y_offset(i, H, k) == ((i + 1) * H) \div (k + 1)

\* One draw call: what is drawn, for which road (0: none), and its rectangle.
Cmd(cmd, road, x, y, w, h) ==
    [cmd |-> cmd, road |-> road, x |-> x, y |-> y, w |-> w, h |-> h]

RECURSIVE Concat(_)
Concat(ss) == IF ss = <<>> THEN <<>> ELSE Head(ss) \o Concat(Tail(ss))

_draw_background(w, h) == <<Cmd("background", 0, 0, 0, w, h)>>

_draw_time(w) ==
    <<Cmd("time", 0, _get_canvas_origin_left, _get_canvas_origin_top, 0, 0)>>

_draw_pause_icon(w) ==
    LET width == _DEFAULT_PAUSE_ICON_WIDTH
        height == _DEFAULT_PAUSE_ICON_HEIGHT
        origin_left == _get_canvas_origin_left + _get_canvas_width(w) - width
        origin_top == _get_canvas_origin_top
    IN  << Cmd("pause_icon", 0, origin_left, origin_top, width, height),
           Cmd("pause_icon_gap", 0, origin_left + width \div 3, origin_top,
               width - (2 * width) \div 3, height) >>

_draw_road_name(r, road_x, road_y) ==
    <<Cmd("road_name", r, road_x,
          road_y + _DEFAULT_ROAD_HEIGHT \div 2 + _DEFAULT_ROAD_NAME_OFFSET, 0, 0)>>

_draw_road(r, origin_x, center_y, width) ==
    <<Cmd("road", r, origin_x, center_y - _DEFAULT_ROAD_HEIGHT \div 2,
          width, _DEFAULT_ROAD_HEIGHT)>>

_draw_car(r, origin_x, center_y, width) ==
    <<Cmd("car", r, origin_x, center_y - _DEFAULT_CAR_HEIGHT \div 2,
          width, _DEFAULT_CAR_HEIGHT)>>

_draw_generator(r, road_x, road_y, W, M) ==
    LET width == Max(1, int_scaled(_DEFAULT_CAR_WIDTH, W, M))
    IN  <<Cmd("generator", r, road_x - width,
              road_y - _DEFAULT_ROAD_HEIGHT \div 2, width, _DEFAULT_ROAD_HEIGHT)>>

_draw_traffic_light(r, center_x, road_center_y, stop_line_thickness) ==
    LET line_top_y == road_center_y - _DEFAULT_ROAD_HEIGHT \div 2
        line_bottom_y ==
            road_center_y + _DEFAULT_ROAD_HEIGHT \div 2 + _DEFAULT_LIGHT_OFFSET
        radius == _DEFAULT_LIGHT_RADIUS
        center_y == line_bottom_y + radius
    IN  << Cmd("stop_line", r, center_x, line_top_y,
               stop_line_thickness, line_bottom_y - line_top_y),
           Cmd("lamp", r, center_x, center_y, radius, radius) >>

_draw_indicators(r, light_x, road_y, deceleration_distance, stopping_distance) ==
    LET origin_y == road_y - _DEFAULT_ROAD_HEIGHT \div 2
    IN  << Cmd("deceleration_range", r, light_x - deceleration_distance,
               origin_y, deceleration_distance, _DEFAULT_ROAD_HEIGHT),
           Cmd("stopping_range_full", r, light_x - stopping_distance,
               origin_y, stopping_distance, _DEFAULT_ROAD_HEIGHT),
           Cmd("stopping_range_half", r, light_x - stopping_distance \div 2,
               origin_y, stopping_distance \div 2, _DEFAULT_ROAD_HEIGHT) >>

HasZones(light) ==
    "xs" \in DOMAIN light /\ "xs0" \in DOMAIN light /\ ~light.green

_draw_traffic_lights(r, lights, road_y, W, M) ==
    Concat([j \in 1..Len(lights) |->
        LET light == lights[j]
            light_x == _get_canvas_origin_left + int_scaled(light.x, W, M)
            stop_line_thickness ==
                Max(1, int_scaled(_DEFAULT_LIGHT_STOP_LINE_THICKNESS, W, M))
        IN  (IF HasZones(light)
             THEN _draw_indicators(r, light_x, road_y,
                                   int_scaled(light.xs, W, M),
                                   int_scaled(light.xs0, W, M))
             ELSE <<>>)
            \o _draw_traffic_light(r, light_x, road_y, stop_line_thickness)])

_draw_cars(r, cars, road_y, W, M) ==
    Concat([j \in 1..Len(cars) |->
        LET car_width == Max(1, int_scaled(_DEFAULT_CAR_WIDTH, W, M))
            car_x_offset == int_scaled(cars[j].x, W, M) - car_width
            car_x == _get_canvas_origin_left + car_x_offset
        IN  _draw_car(r, car_x, road_y, car_width)])

_draw_full_road_generator_first(r, road, road_y, W, M) ==
    LET road_x == _get_canvas_origin_left
        road_width == int_scaled(road.length, W, M)
    IN  _draw_road_name(r, road_x, road_y)
        \o _draw_road(r, road_x, road_y, road_width)
        \o _draw_generator(r, road_x, road_y, W, M)
        \o _draw_traffic_lights(r, road.lights, road_y, W, M)
        \o _draw_cars(r, road.cars, road_y, W, M)

_draw_full_road(r, road, road_y, W, M) ==
    LET road_x == _get_canvas_origin_left
        road_width == int_scaled(road.length, W, M)
    IN  _draw_road_name(r, road_x, road_y)
        \o _draw_road(r, road_x, road_y, road_width)
        \o _draw_traffic_lights(r, road.lights, road_y, W, M)
        \o _draw_cars(r, road.cars, road_y, W, M)
        \o _draw_generator(r, road_x, road_y, W, M)

\* The commands of one frame: s the snapshot, w and h the window size, p the
\* paused flag.  Road r of the commands is 1-based; the code's i is r - 1.
_render_situation(s, w, h, p) ==
    LET roads == s.roads
        W == _get_canvas_width(w)
        M == max_road_length(roads)
    IN  _draw_background(w, h)
        \o _draw_time(w)
        \o (IF p THEN _draw_pause_icon(w) ELSE <<>>)
        \o Concat([r \in 1..Len(roads) |->
              LET road_y == _get_canvas_origin_top
                            + road_y_offset(r - 1, _get_canvas_height(h), Len(roads))
              IN  _draw_full_road(r, roads[r], road_y, W, M)])

\* The render step on its own: any renderable snapshot, either window size,
\* paused or not; a resize between two frames is followed by a new frame.
InitRender ==
    /\ pc = "draw"
    /\ feed = <<>>
    /\ stdin = <<>>
    /\ situation \in RenderSituations
    /\ timeline = <<situation>>
    /\ playback_rate = _DEFAULT_PLAYBACK_RATE
    /\ time_idx = 0
    /\ paused \in BOOLEAN
    /\ \E size \in ResizeSizes :
          window_width = size[1] /\ window_height = size[2]
    /\ held = {}
    /\ nevents = 0
    /\ display = BlankDisplay
    /\ hold_ticks = 0
    /\ hold_idx = 0
    /\ trace = <<>>
    /\ speed_arg = playback_rate
    /\ input_open = TRUE
    /\ drawn = <<>>

RenderFrame ==
    /\ pc = "draw"
    /\ ~_render_situation_raises(situation)
    /\ drawn' = _render_situation(situation, window_width, window_height, paused)
    /\ display' = Frame(situation.time, paused)
    /\ pc' = "drawn"
    /\ UNCHANGED <<feed, stdin, timeline, playback_rate, time_idx, paused,
                   window_width, window_height, held, nevents, situation,
                   hold_ticks, hold_idx, trace, speed_arg, input_open>>

RenderResize ==
    /\ pc = "drawn"
    /\ \E size \in ResizeSizes :
          /\ <<window_width, window_height>> # size
          /\ window_width' = size[1]
          /\ window_height' = size[2]
    /\ pc' = "draw"
    /\ UNCHANGED <<feed, stdin, timeline, playback_rate, time_idx, paused,
                   held, nevents, situation, display, hold_ticks, hold_idx,
                   trace, speed_arg, input_open, drawn>>

NextRender == RenderFrame \/ RenderResize

SpecRender == InitRender /\ [][NextRender]_vars

\* What the claims about a frame read off it.
FrameDrawn == pc = "drawn"
Roads == situation.roads
CanvasWidth == _get_canvas_width(window_width)
CanvasHeight == _get_canvas_height(window_height)
MaxLength == max_road_length(Roads)
Drawn(cmd, r) == {n \in 1..Len(drawn) : drawn[n].cmd = cmd /\ drawn[n].road = r}

\* p is v * horizontal_scale rounded to the nearest integer (either way on a
\* tie), the scale compared as the exact rational CanvasWidth / MaxLength.
IsRounded(p, v) ==
    /\ 2 * (p * MaxLength - v * CanvasWidth) <= MaxLength
    /\ 2 * (v * CanvasWidth - p * MaxLength) <= MaxLength

\* CanvasWidth / MaxLength is a double without rounding error: the reduced
\* denominator is a power of two.
ExactScale == \E e \in 0..10 : (CanvasWidth * 2^e) % MaxLength = 0

\* p is v * horizontal_scale cut down to a whole number: the floor of the
\* exact product, or one below it when the exact product is a whole number
\* and the scale is not an exact double.
IsTruncated(p, v) ==
    \/ /\ p * MaxLength <= v * CanvasWidth
       /\ v * CanvasWidth < (p + 1) * MaxLength
    \/ /\ v * CanvasWidth = (p + 1) * MaxLength
       /\ ~ExactScale

\* Every horizontal quantity of the snapshot has its draw command, placed by
\* the mapping Maps: the road bar is as wide as its length maps; a car's
\* right edge and a light's stop line are at the mapped position; the zones
\* of a red light end at its stop line and are as wide as xs and xs0 map.
HorizontalOffsetsDrawn(Maps(_, _)) ==
    \A r \in 1..Len(Roads) :
        /\ \E n \in Drawn("road", r) :
              /\ drawn[n].x = _get_canvas_origin_left
              /\ Maps(drawn[n].w, Roads[r].length)
        /\ \A j \in 1..Len(Roads[r].cars) :
              \E n \in Drawn("car", r) :
                  Maps(drawn[n].x + drawn[n].w - _get_canvas_origin_left,
                       Roads[r].cars[j].x)
        /\ \A j \in 1..Len(Roads[r].lights) :
              \E n \in Drawn("stop_line", r) :
                  /\ Maps(drawn[n].x - _get_canvas_origin_left,
                          Roads[r].lights[j].x)
                  /\ HasZones(Roads[r].lights[j]) =>
                        /\ \E z \in Drawn("deceleration_range", r) :
                              /\ drawn[z].x + drawn[z].w = drawn[n].x
                              /\ Maps(drawn[z].w, Roads[r].lights[j].xs)
                        /\ \E z \in Drawn("stopping_range_full", r) :
                              /\ drawn[z].x + drawn[z].w = drawn[n].x
                              /\ Maps(drawn[z].w, Roads[r].lights[j].xs0)

\* C15 as stated: every horizontal simulation quantity v of a drawn frame is
\* mapped to the pixel offset round(v * canvas_width / max road length).
C15_OffsetsRounded == FrameDrawn => HorizontalOffsetsDrawn(IsRounded)

\* C15 as amended: every horizontal simulation quantity v of a drawn frame is
\* mapped to the pixel offset int(v * canvas_width / max road length), the
\* product cut down and never rounded up.
C15_OffsetsTruncated == FrameDrawn => HorizontalOffsetsDrawn(IsTruncated)

\* C15's case: roads of lengths 50, 100 and 25 on a canvas 800 wide (scale
\* 8), a car at position 50 drawn with its right edge at offset 400.
C15_Witness ==
    /\ FrameDrawn
    /\ CanvasWidth = 800
    /\ Len(Roads) = 3
    /\ Roads[1].length = 50 /\ Roads[2].length = 100 /\ Roads[3].length = 25
    /\ Roads[1].cars = <<[x |-> 50]>>
    /\ \E n \in Drawn("car", 1) :
          drawn[n].x + drawn[n].w = _get_canvas_origin_left + 400

\* The offset of road r's centre line from the canvas top, read off the frame
\* (the road bar is drawn road_height // 2 above its centre).
CentreOffset(r) ==
    LET n == CHOOSE n \in Drawn("road", r) : TRUE
    IN  drawn[n].y + _DEFAULT_ROAD_HEIGHT \div 2 - _get_canvas_origin_top

\* C16 as stated: with k roads on a canvas H high, road i (from 0) is centred
\* exactly (i+1)*H/(k+1) below the canvas top, so the margin above the first
\* road equals the margin below the last.
C16_CentresExactlyEven ==
    FrameDrawn =>
        /\ \A r \in 1..Len(Roads) :
              /\ Drawn("road", r) # {}
              /\ CentreOffset(r) * (Len(Roads) + 1) = r * CanvasHeight
        /\ CentreOffset(1) = CanvasHeight - CentreOffset(Len(Roads))

\* C16 as amended: road i (from 0) is centred int((i+1)*H/(k+1)) below the
\* canvas top, the quotient cut down to a whole pixel, so that the margin
\* below the last road is the margin above the first or one pixel more.
C16_CentresEvenToThePixel ==
    FrameDrawn =>
        /\ \A r \in 1..Len(Roads) :
              /\ Drawn("road", r) # {}
              /\ CentreOffset(r) * (Len(Roads) + 1) <= r * CanvasHeight
              /\ r * CanvasHeight < (CentreOffset(r) + 1) * (Len(Roads) + 1)
        /\ CentreOffset(1) <= CanvasHeight - CentreOffset(Len(Roads))
        /\ CanvasHeight - CentreOffset(Len(Roads)) <= CentreOffset(1) + 1

\* C16's case: three roads on a canvas 184 high, centred 46, 92 and 138
\* below the canvas top.
C16_Witness ==
    /\ FrameDrawn
    /\ CanvasHeight = 184
    /\ Len(Roads) = 3
    /\ CentreOffset(1) = 46
    /\ CentreOffset(2) = 92
    /\ CentreOffset(3) = 138

\* The stage of a road's drawing a command belongs to, and of the frame's
\* for the commands that belong to no road.
Stage(cmd) ==
    CASE cmd = "background" -> 0
      [] cmd = "time" -> 1
      [] cmd = "pause_icon" -> 2
      [] cmd = "pause_icon_gap" -> 3
      [] cmd = "road_name" -> 1
      [] cmd = "road" -> 2
      [] cmd \in {"deceleration_range", "stopping_range_full",
                  "stopping_range_half", "stop_line", "lamp"} -> 3
      [] cmd = "car" -> 4
      [] cmd = "generator" -> 5
Hud == {"time", "pause_icon", "pause_icon_gap"}
SignalsAndVehicles ==
    {"deceleration_range", "stopping_range_full", "stopping_range_half",
     "stop_line", "lamp", "car"}
Follows(first, second) ==
    \A n \in 1..Len(drawn) :
        drawn[n].cmd = first =>
            /\ n < Len(drawn)
            /\ drawn[n + 1].cmd = second
            /\ drawn[n + 1].road = drawn[n].road

\* C17 as stated: the background is drawn first, the HUD (time text, pause
\* glyph) after every command of every road, and each road's generator
\* marker before that road's signals and vehicles.
C17_HudLastGeneratorBeforeSignals ==
    FrameDrawn =>
        /\ drawn[1].cmd = "background"
        /\ \A a, b \in 1..Len(drawn) :
              /\ (drawn[a].cmd \in Hud /\ drawn[b].road >= 1) => b < a
              /\ (/\ drawn[a].cmd = "generator"
                  /\ drawn[b].cmd \in SignalsAndVehicles
                  /\ drawn[a].road = drawn[b].road) => a < b

\* C17 as amended: the background is drawn first, then the time text and, if
\* and only if paused, the pause glyph, then the roads one after another in
\* the snapshot's order, each as name label, road bar, signals (per signal
\* its zones, then stop line, then lamp), vehicles and last the generator
\* marker.
C17_HudFirstGeneratorLast ==
    FrameDrawn =>
        /\ drawn[1].cmd = "background"
        /\ drawn[2].cmd = "time"
        /\ paused <=> (drawn[3].cmd = "pause_icon"
                       /\ drawn[4].cmd = "pause_icon_gap")
        /\ \A n \in 1..(Len(drawn) - 1) :
              \/ drawn[n].road < drawn[n + 1].road
              \/ /\ drawn[n].road = drawn[n + 1].road
                 /\ Stage(drawn[n].cmd) <= Stage(drawn[n + 1].cmd)
        /\ \A r \in 1..Len(Roads) :
              /\ Cardinality(Drawn("road_name", r)) = 1
              /\ Cardinality(Drawn("road", r)) = 1
              /\ Cardinality(Drawn("generator", r)) = 1
              /\ Cardinality(Drawn("car", r)) = Len(Roads[r].cars)
              /\ Cardinality(Drawn("lamp", r)) = Len(Roads[r].lights)
        /\ drawn[Len(drawn)].cmd = "generator"
        /\ Follows("deceleration_range", "stopping_range_full")
        /\ Follows("stopping_range_full", "stopping_range_half")
        /\ Follows("stopping_range_half", "stop_line")
        /\ Follows("stop_line", "lamp")

\* C17's case: a paused frame of two or more roads, each with a vehicle and
\* a red signal with its zones, all of it drawn.
C17_Witness ==
    /\ FrameDrawn
    /\ paused
    /\ Len(Roads) >= 2
    /\ Drawn("pause_icon", 0) # {}
    /\ \A r \in 1..Len(Roads) :
          /\ Drawn("car", r) # {}
          /\ Drawn("deceleration_range", r) # {}
          /\ Drawn("lamp", r) # {}
          /\ Drawn("generator", r) # {}

\* ---------------------------------------------------------------- liveness
\* The session with a user who may stop giving input: from then on every
\* pygame.event.get() returns nothing and the held keys stay as they are.
CloseInput ==
    /\ pc = "events"
    /\ input_open
    /\ input_open' = FALSE
    /\ UNCHANGED <<pc, feed, stdin, timeline, playback_rate, time_idx, paused,
                   window_width, window_height, held, nevents, situation,
                   display, hold_ticks, hold_idx, trace, speed_arg, drawn>>

\* What the program does by itself: main() reads the finite feed to its end,
\* and main_loop() runs one tick after another, paced by clock.tick.
Tick ==
    \/ ParseArgs
    \/ push_simulation_frame_data
    \/ main_loop_start
    \/ HandleKeysPressed
    \/ Fetch
    \/ Advance
    \/ Render

NextLive == Next \/ CloseInput

SpecLive == Init /\ [][NextLive]_vars /\ WF_vars(Tick)

\* Paused on the last snapshot, and the last snapshot with the pause glyph on
\* the screen (the snapshot at index i of a feed carries time i + 1).
Finished ==
    /\ InLoop
    /\ paused
    /\ time_idx = Length - 1
    /\ display = Frame(Length, TRUE)

\* C18 as stated: for a non-empty timeline (here even one of renderable
\* snapshots only, and with no key left held down), once the user gives no
\* more input the controller eventually is Paused at index length-1 for good,
\* every frame from then on the last snapshot.
C18_PlaybackAlwaysFinishes ==
    (InLoop /\ Length >= 1 /\ AllRenderable /\ ~input_open /\ held = {})
        ~> []Finished

\* C18 as amended: for a non-empty timeline, if the user gives no more input
\* while the controller is Running and no key is held down, then eventually
\* either the session has ended in the error of a snapshot that cannot be
\* rendered, or the controller is Paused at index length-1 for good, every
\* frame from then on the last snapshot.
C18_RunningPlaybackFinishes ==
    (InLoop /\ Length >= 1 /\ ~input_open /\ ~paused /\ held = {})
        ~> [](pc = "crashed" \/ Finished)

\* C18's case: the user gave the last input while Running (the frame on the
\* screen has no pause glyph and this tick brought no event), and the
\* automatic advance has just paused playback on the last index.
C18_Witness ==
    /\ pc = "render"
    /\ ~input_open
    /\ held = {}
    /\ nevents = 0
    /\ Length >= 2
    /\ display = Frame(Length - 1, FALSE)
    /\ paused
    /\ time_idx = Length - 1
====
